---- MODULE Spec2Model ----
(***************************************************************************)
(* Model of the Cloud Scheduler gRPC AsyncIO transport:                    *)
(*   CloudSchedulerTransport            (transports/base.py)               *)
(*   CloudSchedulerGrpcAsyncIOTransport (transports/grpc_asyncio.py)       *)
(*                                                                         *)
(* Python values are modelled as follows.  None and False are the strings  *)
(* "None" and "False"; an attribute that may be missing (_grpc_channel) is *)
(* a sequence of length 0 or 1; a dict is a function whose DOMAIN is the   *)
(* set of its keys; a host name is a sequence of tokens so that the test   *)
(* ":" in host and the concatenation host + ":443" are computed.           *)
(***************************************************************************)
EXTENDS Integers, Sequences, FiniteSets, TLC

VARIABLES classStubs, obj, ev, thr, call

vars == <<classStubs, obj, ev, thr, call>>

(***************************************************************************)
(* Bounds of the model.                                                    *)
(***************************************************************************)
NumReadMethods == 1
NumCallers == 2
MaxAttempts == 3

(***************************************************************************)
(* The eight RPC methods, in the order of the dict display of              *)
(* _prep_wrapped_messages.                                                 *)
(***************************************************************************)
MethodSeq ==
    << "list_jobs", "create_job", "get_job", "update_job",
       "delete_job", "pause_job", "resume_job", "run_job" >>

PrepOrder ==
    << "list_jobs", "get_job", "create_job", "update_job",
       "delete_job", "pause_job", "resume_job", "run_job" >>

Methods == { MethodSeq[i] : i \in 1..Len(MethodSeq) }

\* The accessors that callers read after construction.
ReadMethods ==
    { MethodSeq[i] : i \in 1..NumReadMethods } \cap Methods

\* The transport objects, named in the order in which they are constructed.
TransportSeq == <<"t1", "t2">>

Transports == { TransportSeq[i] : i \in 1..Len(TransportSeq) }

Callers == 1..NumCallers

WirePath(m) ==
    CASE m = "list_jobs"  -> "/google.cloud.scheduler.v1.CloudScheduler/ListJobs"
      [] m = "get_job"    -> "/google.cloud.scheduler.v1.CloudScheduler/GetJob"
      [] m = "create_job" -> "/google.cloud.scheduler.v1.CloudScheduler/CreateJob"
      [] m = "update_job" -> "/google.cloud.scheduler.v1.CloudScheduler/UpdateJob"
      [] m = "delete_job" -> "/google.cloud.scheduler.v1.CloudScheduler/DeleteJob"
      [] m = "pause_job"  -> "/google.cloud.scheduler.v1.CloudScheduler/PauseJob"
      [] m = "resume_job" -> "/google.cloud.scheduler.v1.CloudScheduler/ResumeJob"
      [] m = "run_job"    -> "/google.cloud.scheduler.v1.CloudScheduler/RunJob"

(***************************************************************************)
(* Python truthiness of the values used for credentials, credentials_file  *)
(* and client_cert_source; and of a host given as a token sequence.        *)
(***************************************************************************)
Truthy(x) == x \notin {"None", "False"}

HasPort(host) == \E i \in 1..Len(host) : host[i] = ":"

\* Faulty variant: the host is saved as given.
DefaultPort_AsGiven(host) == host

\* base.py: if ":" not in host: host += ":443"
DefaultPort(host) == IF ~HasPort(host) THEN host \o <<":", "443">> ELSE host

\* grpc_asyncio.py: api_mtls_endpoint if ":" in api_mtls_endpoint
\*                  else api_mtls_endpoint + ":443"
MtlsHost(endpoint) ==
    IF HasPort(endpoint) THEN endpoint ELSE endpoint \o <<":", "443">>

(***************************************************************************)
(* Constructor arguments.  An absent api_mtls_endpoint is the empty        *)
(* sequence; channel is TRUE when the caller passes a pre-built channel.   *)
(***************************************************************************)
HostArgs == { <<"cloudscheduler.googleapis.com">>,
              <<"cloudscheduler.googleapis.com", ":", "8443">> }

MtlsArgs == { <<>>,
              <<"cloudscheduler.mtls.googleapis.com">>,
              <<"cloudscheduler.mtls.googleapis.com", ":", "8443">> }

CtorArgs ==
    [ host : HostArgs,
      credentials : {"None", "cred"},
      credentials_file : {"None", "key.json"},
      channel : BOOLEAN,
      api_mtls_endpoint : MtlsArgs,
      client_cert_source : {"None", "cert_cb"} ]

NoArgs ==
    [ host |-> <<>>, credentials |-> "None", credentials_file |-> "None",
      channel |-> FALSE, api_mtls_endpoint |-> <<>>,
      client_cert_source |-> "None" ]

\* The channel object a caller passes to the constructor of t.
SuppliedChannel(t) ==
    [ kind |-> "supplied", owner |-> t, n |-> 0, target |-> <<>>,
      credentials |-> "None", credentials_file |-> "None", ssl |-> "None" ]

\* The Channel Provider: grpc_helpers_async.create_channel(host, ...).
\* Every call yields a new channel object (n numbers the calls made for t).
create_channel(t, n, host, credentials, credentials_file, ssl) ==
    [ kind |-> "created", owner |-> t, n |-> n, target |-> host,
      credentials |-> credentials, credentials_file |-> credentials_file,
      ssl |-> ssl ]

(***************************************************************************)
(* The object state of a transport and the record of what it has done.     *)
(***************************************************************************)
NewObj ==
    [ phase |-> "new",
      args |-> NoArgs,
      host |-> <<>>,                \* _host
      credentials |-> "None",       \* _credentials
      channel |-> <<>>,             \* _grpc_channel (<<>>: attribute not set)
      hasStubs |-> FALSE,           \* the instance has its own _stubs
      stubs |-> <<>>,               \* the instance's _stubs dict
      wrapped |-> <<>> ]            \* _wrapped_methods, in display order

NewEv ==
    [ nCreate |-> 0,                \* calls of create_channel
      certRun |-> FALSE,            \* client_cert_source() was called
      sslDefault |-> FALSE,         \* SslCredentials() was used
      fileLoaded |-> FALSE,         \* auth.load_credentials_from_file
      adcResolved |-> FALSE,        \* auth.default
      error |-> "None",             \* exception raised by the constructor
      chanReturned |-> {},          \* channels the grpc_channel property returned
      built |-> [m \in Methods |-> 0],       \* unary_unary calls per accessor
      returned |-> [m \in Methods |-> {}] ]  \* callables each accessor returned

(***************************************************************************)
(* The per-method policy table of _prep_wrapped_messages.  Times are in    *)
(* tenths of a second (initial=0.1, maximum=60.0, default_timeout=600.0)   *)
(* and the multiplier 1.3 is kept in tenths as well.                       *)
(***************************************************************************)
\* Faulty variant: the predicate forgets DeadlineExceeded.
RetryPredicate_OnlyUnavailable == {"ServiceUnavailable"}

\* Faulty variant: the predicate also accepts NotFound.
RetryPredicate_WithNotFound ==
    {"ServiceUnavailable", "DeadlineExceeded", "NotFound"}

\* retries.if_exception_type(ServiceUnavailable, DeadlineExceeded)
RetryPredicate == {"ServiceUnavailable", "DeadlineExceeded"}

\* Faulty variant: every wrap_method call passes default_retry.
RetriedMethods_All == Methods

\* The methods whose wrap_method call passes default_retry.
RetriedMethods ==
    {"list_jobs", "get_job", "delete_job", "pause_job", "resume_job"}

\* default_retry of method m: <<>> when the argument is not passed.
DefaultRetry(m) ==
    IF m \in RetriedMethods
    THEN << [ initial |-> 1, maximum |-> 600, multiplier |-> 13,
              predicate |-> RetryPredicate ] >>
    ELSE << >>

\* default_timeout of method m.
DefaultTimeout(m) == 6000

(***************************************************************************)
(* Accessor code, written as functions of a working state                  *)
(*   w = [cls: the class attribute _stubs, o: the object, e: its record]   *)
(* so that the constructor, which reads the accessors, and the callers     *)
(* run the same code.                                                      *)
(***************************************************************************)
W(cls, o, e) == [cls |-> cls, o |-> o, e |-> e]

\* self._stubs: the instance attribute once assigned, else the class attribute.
StubsOf(w) == IF w.o.hasStubs THEN w.o.stubs ELSE w.cls

\* self._stubs[name] = value, on the dict self._stubs resolves to.
StoreStub(w, m, stub) ==
    IF w.o.hasStubs
    THEN [w EXCEPT !.o.stubs = (m :> stub) @@ @]
    ELSE [w EXCEPT !.cls = (m :> stub) @@ @]

\* channel.unary_unary(path, ...): a new callable bound to the channel.
unary_unary(chan, t, m, n) ==
    [ chan |-> chan, path |-> WirePath(m), by |-> t, n |-> n ]

\* Faulty variant: the property creates a channel on every read.
grpc_channel_Uncached(w, t) ==
    LET ch == create_channel(t, w.e.nCreate + 1, w.o.host,
                             w.o.credentials, "None", "None")
    IN  [w EXCEPT !.o.channel = <<ch>>,
                  !.e.nCreate = @ + 1,
                  !.e.chanReturned = @ \cup {ch}]

\* The grpc_channel property.
grpc_channel(w, t) ==
    LET w1 == IF Len(w.o.channel) = 0
              THEN [w EXCEPT
                      !.o.channel =
                          << create_channel(t, w.e.nCreate + 1, w.o.host,
                                            w.o.credentials, "None", "None") >>,
                      !.e.nCreate = @ + 1]
              ELSE w
    IN  [w1 EXCEPT !.e.chanReturned = @ \cup {w1.o.channel[1]}]

\* if name not in self._stubs
StubMissing(w, m) == m \notin DOMAIN StubsOf(w)

\* self._stubs[name] = self.grpc_channel.unary_unary(...)
BuildStub(w, t, m) ==
    LET w1 == grpc_channel(w, t)
        stub == unary_unary(w1.o.channel[1], t, m, w1.e.built[m] + 1)
    IN  [StoreStub(w1, m, stub) EXCEPT !.e.built[m] = @ + 1]

\* return self._stubs[name]
ReturnStub(w, m) == [w EXCEPT !.e.returned[m] = @ \cup {StubsOf(w)[m]}]

\* One whole read of the accessor of method m, run without interruption.
Access(w, t, m) ==
    ReturnStub(IF StubMissing(w, m) THEN BuildStub(w, t, m) ELSE w, m)

\* The callable that read returns.
AccessResult(w, t, m) == StubsOf(Access(w, t, m))[m]

\* gapic_v1.method.wrap_method(stub, default_retry, default_timeout).
wrap_method(key, target, m) ==
    [ method |-> m, key |-> key, target |-> target,
      retry |-> DefaultRetry(m), timeout |-> DefaultTimeout(m) ]

\* _prep_wrapped_messages, from the i-th entry of the dict display on: each
\* entry reads the accessor once for the key and once for the wrapped stub.
RECURSIVE PrepWrappedFrom(_, _, _)
PrepWrappedFrom(w, t, i) ==
    IF i > Len(PrepOrder)
    THEN w
    ELSE LET m  == PrepOrder[i]
             w1 == Access(w, t, m)
             w2 == Access(w1, t, m)
             entry == wrap_method(AccessResult(w, t, m),
                                  AccessResult(w1, t, m), m)
         IN  PrepWrappedFrom([w2 EXCEPT !.o.wrapped = Append(@, entry)],
                             t, i + 1)

_prep_wrapped_messages(w, t) ==
    PrepWrappedFrom([w EXCEPT !.o.wrapped = <<>>], t, 1)

\* CloudSchedulerTransport.__init__(host, credentials, credentials_file).
BaseInit(w, t, host, credentials, credentials_file) ==
    LET w1 == [w EXCEPT !.o.host = DefaultPort(host)]
    IN  IF Truthy(credentials) /\ Truthy(credentials_file)
        THEN [w1 EXCEPT !.o.phase = "failed",
                        !.e.error = "DuplicateCredentialArgs"]
        ELSE LET w2 ==
                   IF credentials_file # "None"
                   THEN [w1 EXCEPT !.o.credentials = "file_cred",
                                   !.e.fileLoaded = TRUE]
                   ELSE IF credentials = "None"
                   THEN [w1 EXCEPT !.o.credentials = "adc",
                                   !.e.adcResolved = TRUE]
                   ELSE [w1 EXCEPT !.o.credentials = credentials]
             IN  _prep_wrapped_messages(w2, t)

\* Faulty variant: the channel branch leaves credentials as passed.
ChannelCredentials_Unchanged(credentials) == credentials

\* if channel: credentials = False
ChannelCredentials(credentials) == "False"

\* CloudSchedulerGrpcAsyncIOTransport.__init__(**a) on a new object t.
GrpcInit(cls, t, a) ==
    LET w0   == W(cls, [NewObj EXCEPT !.args = a], NewEv)
        mtls == MtlsHost(a.api_mtls_endpoint)
        ssl  == IF Truthy(a.client_cert_source)
                THEN "client_cert" ELSE "default_ssl"
        pre  ==
          IF a.channel
          THEN [ credentials |-> ChannelCredentials(a.credentials),
                 host |-> a.host,
                 w |-> [w0 EXCEPT !.o.channel = <<SuppliedChannel(t)>>] ]
          ELSE IF Len(a.api_mtls_endpoint) > 0
          THEN [ credentials |-> a.credentials,
                 host |-> mtls,
                 w |-> [w0 EXCEPT
                          !.e.certRun = Truthy(a.client_cert_source),
                          !.e.sslDefault = ~Truthy(a.client_cert_source),
                          !.e.nCreate = 1,
                          !.o.channel =
                              << create_channel(t, 1, mtls, a.credentials,
                                                a.credentials_file, ssl) >>] ]
          ELSE [ credentials |-> a.credentials, host |-> a.host, w |-> w0 ]
        w1   == BaseInit(pre.w, t, pre.host, pre.credentials,
                         a.credentials_file)
    IN  IF w1.o.phase = "failed"
        THEN w1
        ELSE [w1 EXCEPT !.o.hasStubs = TRUE, !.o.stubs = <<>>,
                        !.o.phase = "ready"]

(***************************************************************************)
(* State machine.                                                          *)
(***************************************************************************)
\* A caller thread: where it is in the accessor it is reading, whether this
\* read built a stub, and the callable the read returned (<<>>: none yet).
IdleThread ==
    [pc |-> "idle", t |-> "t1", m |-> "list_jobs", built |-> FALSE, got |-> <<>>]

\* The invocation of a wrapped method that is in progress.
IdleCall ==
    [ pc |-> "idle", t |-> "t1", m |-> "list_jobs", request |-> "None",
      sent |-> <<>>, outcomes |-> <<>>, deadline |-> FALSE,
      result |-> "None" ]

Init ==
    /\ classStubs = <<>>
    /\ obj = [t \in Transports |-> NewObj]
    /\ ev = [t \in Transports |-> NewEv]
    /\ thr = [c \in Callers |-> IdleThread]
    /\ call = IdleCall

Commit(w, t) ==
    /\ classStubs' = w.cls
    /\ obj' = [obj EXCEPT ![t] = w.o]
    /\ ev' = [ev EXCEPT ![t] = w.e]

Here(t) == W(classStubs, obj[t], ev[t])

\* t = CloudSchedulerGrpcAsyncIOTransport(**a)
Construct(t, a) ==
    /\ obj[t].phase = "new"
    /\ \A i, j \in 1..Len(TransportSeq) :
          (i < j /\ TransportSeq[j] = t) => obj[TransportSeq[i]].phase # "new"
    /\ Commit(GrpcInit(classStubs, t, a), t)
    /\ UNCHANGED <<thr, call>>

\* t.<m>, read by sequential code
ReadAccessor(t, m) ==
    /\ obj[t].phase = "ready"
    /\ Commit(Access(Here(t), t, m), t)
    /\ UNCHANGED <<thr, call>>

\* t.grpc_channel
ReadChannel(t) ==
    /\ obj[t].phase = "ready"
    /\ Commit(grpc_channel(Here(t), t), t)
    /\ UNCHANGED <<thr, call>>

Next ==
    \/ \E t \in Transports, a \in CtorArgs : Construct(t, a)
    \/ \E t \in Transports, m \in ReadMethods : ReadAccessor(t, m)
    \/ \E t \in Transports : ReadChannel(t)

Spec == Init /\ [][Next]_vars

(***************************************************************************)
(* Caller threads reading an accessor.  The accessor takes no lock, so a   *)
(* thread can be preempted between the membership test, the store and the  *)
(* final lookup.                                                           *)
(***************************************************************************)
\* The transports of this specification are built with the default
\* arguments, with or without a pre-built channel.
PlainArgs ==
    { a \in CtorArgs :
        /\ ~HasPort(a.host)
        /\ a.credentials = "None" /\ a.credentials_file = "None"
        /\ a.api_mtls_endpoint = <<>> /\ a.client_cert_source = "None" }

\* if "<m>" not in self._stubs
ThreadCheck(c, t, m) ==
    /\ thr[c].pc = "idle"
    /\ obj[t].phase = "ready"
    /\ thr' = [thr EXCEPT ![c] =
                 [ pc |-> IF StubMissing(Here(t), m) THEN "build" ELSE "return",
                   t |-> t, m |-> m, built |-> FALSE, got |-> <<>> ]]
    /\ UNCHANGED <<classStubs, obj, ev, call>>

\* self._stubs["<m>"] = self.grpc_channel.unary_unary(...)
ThreadBuild(c) ==
    /\ thr[c].pc = "build"
    /\ Commit(BuildStub(Here(thr[c].t), thr[c].t, thr[c].m), thr[c].t)
    /\ thr' = [thr EXCEPT ![c].pc = "return", ![c].built = TRUE]
    /\ UNCHANGED call

\* return self._stubs["<m>"]
ThreadReturn(c) ==
    /\ thr[c].pc = "return"
    /\ Commit(ReturnStub(Here(thr[c].t), thr[c].m), thr[c].t)
    /\ thr' = [thr EXCEPT ![c].pc = "idle",
                          ![c].got = << StubsOf(Here(thr[c].t))[thr[c].m] >>]
    /\ UNCHANGED call

NextThreads ==
    \/ \E t \in Transports, a \in PlainArgs : Construct(t, a)
    \/ \E c \in Callers, t \in Transports, m \in ReadMethods : ThreadCheck(c, t, m)
    \/ \E c \in Callers : ThreadBuild(c)
    \/ \E c \in Callers : ThreadReturn(c)

SpecThreads == Init /\ [][NextThreads]_vars

(***************************************************************************)
(* Invocation of a wrapped method.  The wrapper is gapic_v1.method's; what *)
(* it does with the policy it was given is taken from its contract: a call *)
(* is attempted, a failure the policy's predicate accepts is followed by a *)
(* backoff and a resubmission of the same request, any other outcome ends  *)
(* the call, and so does the deadline.  Time is the environment's: the     *)
(* deadline may pass at any moment of a call.                              *)
(***************************************************************************)
Requests == {"req_a", "req_b"}

Failures == {"ServiceUnavailable", "DeadlineExceeded", "NotFound", "InvalidArgument"}

Outcomes == {"OK"} \cup Failures

\* _wrapped_methods entry of method m of transport t.
WrappedEntry(t, m) ==
    CHOOSE en \in { obj[t].wrapped[i] : i \in 1..Len(obj[t].wrapped) } :
        en.method = m

\* Whether the wrapper resubmits after a failure of this kind.
Retries(entry, kind) ==
    /\ Len(entry.retry) > 0
    /\ kind \in entry.retry[1].predicate

\* rpc(request): the first attempt is sent.
Invoke(t, m, req) ==
    /\ call.pc \in {"idle", "done"}
    /\ obj[t].phase = "ready"
    /\ call' = [ pc |-> "attempt", t |-> t, m |-> m, request |-> req,
                 sent |-> <<req>>, outcomes |-> <<>>, deadline |-> FALSE,
                 result |-> "None" ]
    /\ UNCHANGED <<classStubs, obj, ev, thr>>

\* The attempt in flight ends with outcome kind, and the wrapper decides.
Respond(kind) ==
    /\ call.pc = "attempt"
    /\ LET entry == WrappedEntry(call.t, call.m)
           c1 == [call EXCEPT !.outcomes = Append(@, kind)]
       IN  call' =
             IF kind = "OK"
             THEN [c1 EXCEPT !.pc = "done", !.result = "OK"]
             ELSE IF ~Retries(entry, kind)
             THEN [c1 EXCEPT !.pc = "done", !.result = kind]
             ELSE IF call.deadline
             THEN [c1 EXCEPT !.pc = "done", !.result = "DeadlineExceeded"]
             ELSE [c1 EXCEPT !.pc = "backoff"]
    /\ UNCHANGED <<classStubs, obj, ev, thr>>

\* The backoff sleep ends and the same request is sent again.
Resubmit ==
    /\ call.pc = "backoff"
    /\ ~call.deadline
    /\ Len(call.sent) < MaxAttempts
    /\ call' = [call EXCEPT !.pc = "attempt", !.sent = Append(@, call.request)]
    /\ UNCHANGED <<classStubs, obj, ev, thr>>

\* The deadline of the call passes.
DeadlinePasses ==
    /\ call.pc \in {"attempt", "backoff"}
    /\ ~call.deadline
    /\ call' = [call EXCEPT !.deadline = TRUE]
    /\ UNCHANGED <<classStubs, obj, ev, thr>>

\* The deadline has passed during the backoff: the call ends.
GiveUp ==
    /\ call.pc = "backoff"
    /\ call.deadline
    /\ call' = [call EXCEPT !.pc = "done", !.result = "DeadlineExceeded"]
    /\ UNCHANGED <<classStubs, obj, ev, thr>>

NextCall ==
    \/ \E t \in Transports, a \in PlainArgs : Construct(t, a)
    \/ \E t \in Transports, m \in Methods, req \in Requests : Invoke(t, m, req)
    \/ \E kind \in Outcomes : Respond(kind)
    \/ Resubmit
    \/ DeadlinePasses
    \/ GiveUp

SpecCall == Init /\ [][NextCall]_vars

(***************************************************************************)
(* Properties.                                                             *)
(***************************************************************************)
Constructed(t) == obj[t].phase # "new"

Ready(t) == obj[t].phase = "ready"

ClaimedRetried == {"list_jobs", "get_job", "delete_job", "pause_job", "resume_job"}

ClaimedUnretried == {"create_job", "update_job", "run_job"}

ClaimedRetryable == {"ServiceUnavailable", "DeadlineExceeded"}

LastOutcome == call.outcomes[Len(call.outcomes)]

\* C1: over the whole lifetime of a transport, every read of a method
\* accessor returns the callable its first read returned, and unary_unary
\* is called for that accessor by the first read only.
C1_StubBuiltOnce ==
    \A t \in Transports, m \in Methods :
        /\ Cardinality(ev[t].returned[m]) <= 1
        /\ ev[t].built[m] <= 1

\* C2: a constructor call with both credentials and credentials_file ends
\* with DuplicateCredentialArgs, and before that no channel is created, no
\* client certificate callback is run and no credentials are loaded.
C2_DuplicateCredentialsRejected ==
    \A t \in Transports :
        ( /\ Constructed(t)
          /\ obj[t].args.credentials = "cred"
          /\ obj[t].args.credentials_file = "key.json" )
        => /\ ev[t].error = "DuplicateCredentialArgs"
           /\ ev[t].nCreate = 0
           /\ ~ev[t].certRun
           /\ ~ev[t].sslDefault
           /\ ~ev[t].fileLoaded
           /\ ~ev[t].adcResolved

\* C3: for a method with a retry policy, a failure of a retryable kind does
\* not end the call while the deadline has not passed, every attempt sends
\* the request of the call, and a call whose last attempt succeeds returns
\* the successful response.
C3_RetryThenSuccess ==
    call.m \in ClaimedRetried =>
        /\ \A i \in 1..Len(call.sent) : call.sent[i] = call.request
        /\ ( call.pc = "done" /\ LastOutcome = "OK" ) => call.result = "OK"
        /\ ( call.pc = "done" /\ LastOutcome \in ClaimedRetryable )
               => call.deadline

C3_Witness ==
    /\ call.pc = "done"
    /\ call.m = "list_jobs"
    /\ call.outcomes = <<"ServiceUnavailable", "ServiceUnavailable", "OK">>
    /\ call.sent = <<call.request, call.request, call.request>>
    /\ ~call.deadline
    /\ call.result = "OK"

\* C4: for a method without a retry policy, a first failure of a retryable
\* kind ends the call with that failure, and the request is sent once only.
C4_NoRetryWithoutPolicy ==
    call.m \in ClaimedUnretried =>
        /\ Len(call.sent) <= 1
        /\ ( Len(call.outcomes) >= 1 /\ call.outcomes[1] \in ClaimedRetryable )
               => ( call.pc = "done" /\ call.result = call.outcomes[1] )

C4_Witness ==
    /\ call.pc = "done"
    /\ call.m = "create_job"
    /\ call.outcomes = <<"ServiceUnavailable">>
    /\ call.result = "ServiceUnavailable"

\* C5: for every method, a failure that is neither ServiceUnavailable nor
\* DeadlineExceeded ends the call at that attempt with that same failure.
C5_OtherFailuresPropagate ==
    \A i \in 1..Len(call.outcomes) :
        call.outcomes[i] \notin ({"OK"} \cup ClaimedRetryable)
        => /\ call.pc = "done"
           /\ i = Len(call.outcomes)
           /\ Len(call.sent) = i
           /\ call.result = call.outcomes[i]

C5_Witness ==
    /\ call.pc = "done"
    /\ call.m = "list_jobs"
    /\ call.outcomes = <<"ServiceUnavailable", "NotFound">>
    /\ call.result = "NotFound"

\* C7: a transport constructed with a pre-built channel never calls
\* create_channel, and every stub it hands out or wraps is bound to the
\* channel it was given.
C7_SuppliedChannelOnly ==
    \A t \in Transports :
        ( Ready(t) /\ obj[t].args.channel )
        => /\ ev[t].nCreate = 0
           /\ \A m \in Methods : \A stub \in ev[t].returned[m] :
                  stub.chan = SuppliedChannel(t)
           /\ \A i \in 1..Len(obj[t].wrapped) :
                  obj[t].wrapped[i].target.chan = SuppliedChannel(t)

\* C8: when several callers read the same accessor of one transport for
\* the first time, one stub is built and all of them receive it.
C8_OneStubUnderRace ==
    \A c1, c2 \in Callers :
        ( c1 # c2 /\ thr[c1].t = thr[c2].t /\ thr[c1].m = thr[c2].m )
        => /\ ~(thr[c1].built /\ thr[c2].built)
           /\ ( thr[c1].got # <<>> /\ thr[c2].got # <<>> )
                  => thr[c1].got = thr[c2].got

\* C9: a transport constructed with a pre-built channel never resolves
\* ambient credentials (auth.default), whatever credentials and
\* credentials_file are.
C9_NoAmbientWithChannel ==
    \A t \in Transports :
        ( Constructed(t) /\ obj[t].args.channel ) => ~ev[t].adcResolved

C9_Witness ==
    \E t \in Transports :
        /\ Ready(t)
        /\ obj[t].args.channel
        /\ obj[t].args.credentials = "None"
        /\ obj[t].args.credentials_file = "None"
        /\ obj[t].credentials = "False"

\* C10: with a pre-built channel the credentials_file argument is ignored:
\* nothing is loaded from the file and the transport ends as it does when
\* credentials_file is omitted, ready and with _credentials False.
C10_FileIgnoredWithChannel ==
    \A t \in Transports :
        ( Constructed(t) /\ obj[t].args.channel )
        => /\ ~ev[t].fileLoaded
           /\ Ready(t)
           /\ obj[t].credentials = "False"

\* The constructor argument the stored host comes from: api_mtls_endpoint
\* when the constructor takes its mutual-TLS branch, host otherwise.
HostInput(t) ==
    IF ~obj[t].args.channel /\ obj[t].args.api_mtls_endpoint # <<>>
    THEN obj[t].args.api_mtls_endpoint
    ELSE obj[t].args.host

\* The channels create_channel has made for transport t.
CreatedChannels(t) ==
    { ch \in ev[t].chanReturned \cup { obj[t].channel[i] : i \in 1..Len(obj[t].channel) } :
        ch.kind = "created" }

\* C11: the host a constructed transport stores contains ":" and is the
\* input, with ":443" appended exactly when the input has no ":"; every
\* address handed to create_channel contains ":" as well.
C11_HostHasPort ==
    \A t \in Transports :
        Ready(t)
        => /\ \E i \in 1..Len(obj[t].host) : obj[t].host[i] = ":"
           /\ obj[t].host =
                IF \E i \in 1..Len(HostInput(t)) : HostInput(t)[i] = ":"
                THEN HostInput(t)
                ELSE HostInput(t) \o <<":", "443">>
           /\ \A ch \in CreatedChannels(t) :
                \E i \in 1..Len(ch.target) : ch.target[i] = ":"

C11_Witness ==
    \E t \in Transports :
        /\ Ready(t)
        /\ obj[t].args.host = <<"cloudscheduler.googleapis.com">>
        /\ obj[t].args.api_mtls_endpoint = <<>>
        /\ obj[t].host = <<"cloudscheduler.googleapis.com", ":", "443">>
        /\ \E ch \in CreatedChannels(t) : ch.target = obj[t].host

\* C12: whenever api_mtls_endpoint is passed, the stored host is that
\* endpoint (with ":443" when it has no port) and the channel is a
\* mutual-TLS channel created for it, whatever the other arguments are.
C12_MtlsEndpointOverrides ==
    \A t \in Transports :
        ( Constructed(t) /\ obj[t].args.api_mtls_endpoint # <<>> )
        => LET ep == obj[t].args.api_mtls_endpoint
               target == IF \E i \in 1..Len(ep) : ep[i] = ":"
                         THEN ep ELSE ep \o <<":", "443">>
           IN  /\ obj[t].host = target
               /\ Len(obj[t].channel) = 1
               /\ obj[t].channel[1].kind = "created"
               /\ obj[t].channel[1].target = target
               /\ obj[t].channel[1].ssl \in {"client_cert", "default_ssl"}

\* The stubs transport t has handed out, holds in its cache or has wrapped.
StubsUsedBy(t) ==
    UNION { ev[t].returned[m] : m \in Methods }
    \cup { obj[t].stubs[m] : m \in DOMAIN obj[t].stubs }
    \cup { obj[t].wrapped[i].key : i \in 1..Len(obj[t].wrapped) }
    \cup { obj[t].wrapped[i].target : i \in 1..Len(obj[t].wrapped) }

\* C13: the stub cache belongs to its transport alone: every stub a
\* transport returns from an accessor, caches or wraps was built by that
\* transport on its own channel, never by another transport.
C13_StubCacheOwned ==
    \A t \in Transports :
        Constructed(t)
        => \A stub \in StubsUsedBy(t) :
               /\ stub.by = t
               /\ stub.chan \in { obj[t].channel[i] : i \in 1..Len(obj[t].channel) }

\* C14: the channel of a transport is created once: create_channel is
\* called at most once for an instance, and every read of grpc_channel
\* returns the same channel.
C14_ChannelCreatedOnce ==
    \A t \in Transports :
        /\ ev[t].nCreate <= 1
        /\ Cardinality(ev[t].chanReturned) <= 1

C14_Witness ==
    \E t \in Transports :
        /\ Ready(t)
        /\ ~obj[t].args.channel
        /\ obj[t].args.api_mtls_endpoint = <<>>
        /\ ev[t].nCreate = 1
        /\ ev[t].chanReturned = {obj[t].channel[1]}
        /\ "list_jobs" \in DOMAIN obj[t].stubs
        /\ ev[t].built["list_jobs"] = 2

\* C15: once a transport is constructed, the callable each of the eight
\* accessors returns is a key of _wrapped_methods, and the entry under that
\* key is the wrapper carrying that method's policy.
C15_AccessorIsWrappedKey ==
    \A t \in Transports :
        Ready(t)
        => \A m \in Methods :
               \E i \in 1..Len(obj[t].wrapped) :
                   /\ obj[t].wrapped[i].key = AccessResult(Here(t), t, m)
                   /\ obj[t].wrapped[i].method = m

====
